---- MODULE Spec2Model ----
(***************************************************************************)
(* Store monitoring backend: the report engine (app/report.py,             *)
(* app/time_utils.py) and the report job lifecycle (app/main.py).          *)
(*                                                                         *)
(* Time is an integer number of milliseconds.  Instant 0 is a Monday,      *)
(* 00:00:00 UTC, so that the weekday of day number d is d % 7 with         *)
(* 0 = Monday, as datetime.weekday() numbers it.  Every constant of the    *)
(* code (23:59:59, microsecond=999000, timedelta(hours=1), ...) is a whole *)
(* number of milliseconds.  A timezone is its UTC offset in milliseconds;  *)
(* the zones are taken at a time of year without a daylight-saving         *)
(* transition.                                                             *)
(***************************************************************************)
EXTENDS Integers, Sequences, FiniteSets, TLC

VARIABLES
    call,       \* the engine function under test: its arguments and its result
    data_dir,   \* the three CSV files of data/ (loader.py), or their absence
    db,         \* the tables observations, business_hours, store_timezones
    reports,    \* the table reports: report id -> row
    tasks,      \* report id -> the background task _run_generation_task(id)
    files       \* reports/report_<id>.csv: report id -> the rows written

vars == <<call, data_dir, db, reports, tasks, files>>

----------------------------------------------------------------------------
(* Units of time, in milliseconds. *)

SECOND == 1000
MINUTE == 60000
HOUR == 3600000
DAY == 86400000

Max(a, b) == IF a >= b THEN a ELSE b
Min(a, b) == IF a <= b THEN a ELSE b

----------------------------------------------------------------------------
(* time_utils.Interval *)

Interval(s, e) == [start |-> s, end |-> e]

\* Interval.clamp: the empty sequence stands for None.
clamp(iv, window_start, window_end) ==
    LET s == Max(iv.start, window_start)
        e == Min(iv.end, window_end)
    IN  IF s >= e THEN <<>> ELSE <<Interval(s, e)>>

duration_seconds(iv) == iv.end - iv.start

----------------------------------------------------------------------------
(* report._interpolate_status.  An observation is [t, status], status      *)
(* "active" or "inactive" (models.Observation.status).                     *)

\* A variant that passes over an observation exactly at window.start.
RECURSIVE ScanSeedStrict(_, _, _, _)
ScanSeedStrict(observations, i, start, current_status) ==
    IF i > Len(observations) THEN current_status
    ELSE IF observations[i].t < start
         THEN ScanSeedStrict(observations, i + 1, start, observations[i].status)
         ELSE current_status

\* Lines 95-104: the status carried into window.start.  The loop stops at
\* the first observation later than window.start.
RECURSIVE ScanSeed(_, _, _, _)
ScanSeed(observations, i, start, current_status) ==
    IF i > Len(observations) THEN current_status
    ELSE IF observations[i].t <= start
         THEN ScanSeed(observations, i + 1, start, observations[i].status)
         ELSE current_status

\* A variant without the fallback to the first observation's status.
SeedStatusNoDefault(observations, window) ==
    IF observations[1].t <= window.start
    THEN ScanSeed(observations, 1, window.start, observations[1].status)
    ELSE "inactive"

SeedStatus(observations, window) ==
    ScanSeed(observations, 1, window.start, observations[1].status)

\* Line 107: the observations strictly inside the window.
AllPoints(observations, window) ==
    SelectSeq(observations, LAMBDA o : o.t > window.start /\ o.t < window.end)

\* A variant that measures every delta from window.start.
WalkStepFromStart(acc, o, window) ==
    LET delta == o.t - window.start
    IN  [uptime   |-> IF acc.current_status = "active"
                      THEN acc.uptime + delta ELSE acc.uptime,
         downtime |-> IF acc.current_status = "active"
                      THEN acc.downtime ELSE acc.downtime + delta,
         current_time   |-> o.t,
         current_status |-> o.status]

\* Lines 109-115: one iteration of the walk over all_points.
WalkStep(acc, o, window) ==
    LET delta == o.t - acc.current_time
    IN  [uptime   |-> IF acc.current_status = "active"
                      THEN acc.uptime + delta ELSE acc.uptime,
         downtime |-> IF acc.current_status = "active"
                      THEN acc.downtime ELSE acc.downtime + delta,
         current_time   |-> o.t,
         current_status |-> o.status]

RECURSIVE Walk(_, _, _, _)
Walk(acc, points, i, window) ==
    IF i > Len(points) THEN acc
    ELSE Walk(WalkStep(acc, points[i], window), points, i + 1, window)

\* Lines 118-125: the tail from the last point to window.end.
TailSegment(acc, window) ==
    LET delta_tail == window.end - acc.current_time
    IN  IF delta_tail > 0
        THEN [up   |-> IF acc.current_status = "active"
                       THEN acc.uptime + delta_tail ELSE acc.uptime,
              down |-> IF acc.current_status = "active"
                       THEN acc.downtime ELSE acc.downtime + delta_tail]
        ELSE [up |-> acc.uptime, down |-> acc.downtime]

_interpolate_status(observations, window) ==
    IF observations = <<>> THEN [up |-> 0, down |-> 0]
    ELSE TailSegment(Walk([uptime |-> 0, downtime |-> 0,
                    current_time |-> window.start,
                    current_status |-> SeedStatus(observations, window)],
                          AllPoints(observations, window), 1, window),
                     window)

----------------------------------------------------------------------------
(* time_utils: timezone conversion, the days of a range, local spans. *)

\* datetime.astimezone(tz) of a UTC instant, as local wall-clock milliseconds.
to_local(t_utc, tz) == t_utc + tz

\* datetime.astimezone(UTC) of a local wall-clock time.
to_utc(t_local, tz) == t_local - tz

\* datetime.replace(hour=0, minute=0, second=0, microsecond=0)
local_midnight(t_local) == (t_local \div DAY) * DAY

\* datetime.weekday(): 0 = Monday ... 6 = Sunday
weekday(day_local_midnight) == (day_local_midnight \div DAY) % 7

RECURSIVE DaysFrom(_, _)
DaysFrom(cur_local, end_local) ==
    IF cur_local <= end_local
    THEN <<cur_local>> \o DaysFrom(cur_local + DAY, end_local)
    ELSE <<>>

\* The local midnights of the days touching [start, end), ascending.
daterange_days(start, end, tz) ==
    DaysFrom(local_midnight(to_local(start, tz)), to_local(end, tz))

\* time(23, 59, 59) with microsecond=999000: the end of the first part of a
\* span that wraps past midnight.
WRAP_FIRST_END == 86399999

\* Lines 43-65: the UTC intervals of one local span <<start, end>> on a day.
span_to_utc_intervals(day_local_midnight, span, tz) ==
    LET start_dt_local == day_local_midnight + span[1]
        end_dt_local == day_local_midnight + span[2]
    IN  IF end_dt_local <= start_dt_local
        THEN << Interval(to_utc(start_dt_local, tz),
                         to_utc(day_local_midnight + WRAP_FIRST_END, tz)),
                Interval(to_utc(local_midnight(day_local_midnight + DAY), tz),
                         to_utc(end_dt_local + DAY, tz)) >>
        ELSE << Interval(to_utc(start_dt_local, tz), to_utc(end_dt_local, tz)) >>

RECURSIVE SpansFrom(_, _, _, _)
SpansFrom(day_local_midnight, local_spans, i, tz) ==
    IF i > Len(local_spans) THEN <<>>
    ELSE span_to_utc_intervals(day_local_midnight, local_spans[i], tz)
         \o SpansFrom(day_local_midnight, local_spans, i + 1, tz)

local_times_to_utc_intervals(day_local_midnight, local_spans, tz) ==
    SpansFrom(day_local_midnight, local_spans, 1, tz)

----------------------------------------------------------------------------
(* report._business_intervals_utc.  A StoreConfig is [timezone,            *)
(* business_hours_by_dow]; business_hours_by_dow maps each weekday 0..6 to *)
(* its spans in table order, the empty sequence for a weekday the          *)
(* dictionary has no key for.                                              *)

\* time(0, 0, 0), time(23, 59, 59): the span of a day without business hours.
ALL_DAY_END == 86399000
ALL_DAY_SPAN == <<0, ALL_DAY_END>>

Weekdays == 0 .. 6

\* A variant that substitutes the all-day span only for a store without any
\* business hours.
day_spans_whole_store(config, day_dow) ==
    IF \A w \in Weekdays : config.business_hours_by_dow[w] = <<>>
    THEN <<ALL_DAY_SPAN>>
    ELSE config.business_hours_by_dow[day_dow]

\* Lines 68-71: the spans of a weekday, the all-day span when it has none.
day_spans(config, day_dow) ==
    IF config.business_hours_by_dow[day_dow] = <<>>
    THEN <<ALL_DAY_SPAN>>
    ELSE config.business_hours_by_dow[day_dow]

RECURSIVE ClampAll(_, _, _, _)
ClampAll(day_intervals, i, start_utc, end_utc) ==
    IF i > Len(day_intervals) THEN <<>>
    ELSE clamp(day_intervals[i], start_utc, end_utc)
         \o ClampAll(day_intervals, i + 1, start_utc, end_utc)

\* Lines 67-78: the loop body for one local day.
day_business_intervals(day_local_midnight, start_utc, end_utc, config) ==
    ClampAll(local_times_to_utc_intervals(
                 day_local_midnight,
                 day_spans(config, weekday(day_local_midnight)),
                 config.timezone),
             1, start_utc, end_utc)

RECURSIVE DaysLoop(_, _, _, _, _)
DaysLoop(days, i, start_utc, end_utc, config) ==
    IF i > Len(days) THEN <<>>
    ELSE day_business_intervals(days[i], start_utc, end_utc, config)
         \o DaysLoop(days, i + 1, start_utc, end_utc, config)

_business_intervals_utc(start_utc, end_utc, config) ==
    DaysLoop(daterange_days(start_utc, end_utc, config.timezone), 1,
             start_utc, end_utc, config)

----------------------------------------------------------------------------
(* report._compute_store_metrics.  The table observations is a set of rows *)
(* [store_id, timestamp_utc, status].                                      *)

\* A variant whose last_hour window is a day long.
store_windows_hour_as_day(now_utc) ==
    [last_hour |-> Interval(now_utc - DAY, now_utc),
     last_day  |-> Interval(now_utc - DAY, now_utc),
     last_week |-> Interval(now_utc - 7 * DAY, now_utc)]

\* Lines 130-138: the three windows ending at now_utc.
store_windows(now_utc) ==
    [last_hour |-> Interval(now_utc - HOUR, now_utc),
     last_day  |-> Interval(now_utc - DAY, now_utc),
     last_week |-> Interval(now_utc - 7 * DAY, now_utc)]

RECURSIVE SortByTime(_)
SortByTime(rows) ==
    IF rows = {} THEN <<>>
    ELSE LET first == CHOOSE r \in rows :
                          \A q \in rows : r.timestamp_utc <= q.timestamp_utc
         IN  <<[t |-> first.timestamp_utc, status |-> first.status]>>
             \o SortByTime(rows \ {first})

\* Lines 141-149: the store's observations from two hours before the week
\* window to two hours after now_utc, ascending.
store_observations(observations_table, store_id, now_utc) ==
    SortByTime({r \in observations_table :
                  /\ r.store_id = store_id
                  /\ r.timestamp_utc >= (now_utc - 7 * DAY) - 2 * HOUR
                  /\ r.timestamp_utc <= now_utc + 2 * HOUR})

\* Lines 154-161: the totals of one window over its business intervals.
RECURSIVE SumIntervals(_, _, _, _)
SumIntervals(observations, business_intervals, i, totals) ==
    IF i > Len(business_intervals) THEN totals
    ELSE LET r == _interpolate_status(observations, business_intervals[i])
         IN  SumIntervals(observations, business_intervals, i + 1,
                          [uptime_total |-> totals.uptime_total + r.up,
                           downtime_total |-> totals.downtime_total + r.down])

\* A variant that first cuts the series down to the window.
window_totals_refiltered(observations, win, config) ==
    SumIntervals(SelectSeq(observations,
                           LAMBDA o : o.t >= win.start /\ o.t <= win.end),
                 _business_intervals_utc(win.start, win.end, config),
                 1, [uptime_total |-> 0, downtime_total |-> 0])

window_totals(observations, win, config) ==
    SumIntervals(observations,
                 _business_intervals_utc(win.start, win.end, config),
                 1, [uptime_total |-> 0, downtime_total |-> 0])

\* A metric is the window's total in milliseconds with the unit it is
\* reported in: total / 60.0 minutes, or total / 3600.0 hours.
_compute_store_metrics(observations_table, store_id, now_utc, config) ==
    LET windows == store_windows(now_utc)
        observations == store_observations(observations_table, store_id, now_utc)
        hour == window_totals(observations, windows.last_hour, config)
        day == window_totals(observations, windows.last_day, config)
        week == window_totals(observations, windows.last_week, config)
    IN  [uptime_last_hour_min    |-> [total |-> hour.uptime_total, unit |-> MINUTE],
         downtime_last_hour_min  |-> [total |-> hour.downtime_total, unit |-> MINUTE],
         uptime_last_day_hr      |-> [total |-> day.uptime_total, unit |-> HOUR],
         downtime_last_day_hr    |-> [total |-> day.downtime_total, unit |-> HOUR],
         uptime_last_week_hr     |-> [total |-> week.uptime_total, unit |-> HOUR],
         downtime_last_week_hr   |-> [total |-> week.downtime_total, unit |-> HOUR]]

\* round(x, 2) of a metric, in hundredths of its unit (3000 is 30.00).  Both
\* units are whole multiples of 100 ms; a total exactly halfway between two
\* hundredths, where the float decides, is rounded up.
round2(metric) ==
    (metric.total + metric.unit \div 200) \div (metric.unit \div 100)

\* Lines 183-192 of generate_report: the row of one store.
report_row(store_id, metrics) ==
    [store_id |-> store_id,
     uptime_last_hour   |-> round2(metrics.uptime_last_hour_min),
     uptime_last_day    |-> round2(metrics.uptime_last_day_hr),
     update_last_week   |-> round2(metrics.uptime_last_week_hr),
     downtime_last_hour |-> round2(metrics.downtime_last_hour_min),
     downtime_last_day  |-> round2(metrics.downtime_last_day_hr),
     downtime_last_week |-> round2(metrics.downtime_last_week_hr)]

----------------------------------------------------------------------------
(* report._get_reference_now, report._load_store_configs and the rows of   *)
(* report.generate_report.  The table business_hours is a sequence of rows *)
(* [store_id, day_of_week, start_time_local, end_time_local] in table      *)
(* order; store_timezones is a set of rows [store_id, timezone_str].       *)

SetMax(S) == CHOOSE x \in S : \A y \in S : x >= y

\* A variant that takes the latest timestamp of one store only.
reference_now_of_one_store(observations_table, utcnow) ==
    IF observations_table = {} THEN utcnow
    ELSE LET sid == (CHOOSE r \in observations_table :
                        \A q \in observations_table :
                            r.timestamp_utc <= q.timestamp_utc).store_id
         IN  SetMax({r.timestamp_utc : r \in {q \in observations_table :
                                                q.store_id = sid}})

\* func.max(Observation.timestamp_utc), else datetime.utcnow().
_get_reference_now(observations_table, utcnow) ==
    IF observations_table = {} THEN utcnow
    ELSE SetMax({r.timestamp_utc : r \in observations_table})

\* DEFAULT_TZ = ZoneInfo("America/Chicago"), at UTC-06:00.
DEFAULT_TZ == -6 * HOUR

\* Lines 40-43: ZoneInfo(tz.timezone_str), DEFAULT_TZ for a name ZoneInfo
\* does not know.
zone_or_default(timezone_str) ==
    CASE timezone_str = "UTC" -> 0
      [] timezone_str = "America/Chicago" -> -6 * HOUR
      [] timezone_str = "Asia/Kolkata" -> 5 * HOUR + 30 * MINUTE
      [] OTHER -> DEFAULT_TZ

\* Lines 46-48: bh_map[store_id][day_of_week], in table order.
RECURSIVE SpansOf(_, _, _, _)
SpansOf(business_hours, i, store_id, day_of_week) ==
    IF i > Len(business_hours) THEN <<>>
    ELSE (IF /\ business_hours[i].store_id = store_id
             /\ business_hours[i].day_of_week = day_of_week
          THEN << <<business_hours[i].start_time_local,
                    business_hours[i].end_time_local>> >>
          ELSE <<>>)
         \o SpansOf(business_hours, i + 1, store_id, day_of_week)

\* A variant that takes the stores from the observations alone.
store_ids_observed_only(tables) ==
    {r.store_id : r \in tables.observations}

\* Lines 52-55: the stores of the report.
store_ids(tables) ==
    {r.store_id : r \in tables.observations}
    \cup {r.store_id : r \in tables.store_timezones}
    \cup {tables.business_hours[i].store_id : i \in 1 .. Len(tables.business_hours)}

_load_store_configs(tables) ==
    [sid \in store_ids(tables) |->
        [timezone |->
            IF \E r \in tables.store_timezones : r.store_id = sid
            THEN zone_or_default(
                     (CHOOSE r \in tables.store_timezones : r.store_id = sid).timezone_str)
            ELSE DEFAULT_TZ,
         business_hours_by_dow |->
            [w \in Weekdays |-> SpansOf(tables.business_hours, 1, sid, w)]]]

\* The iteration order of a dictionary or a set: some fixed order.
RECURSIVE ItemsOf(_)
ItemsOf(S) ==
    IF S = {} THEN <<>>
    ELSE LET x == CHOOSE y \in S : TRUE IN <<x>> \o ItemsOf(S \ {x})

\* Lines 177-193 of generate_report: the rows, one per store of configs.
report_rows(tables, now_utc) ==
    LET configs == _load_store_configs(tables)
        ids == ItemsOf(DOMAIN configs)
    IN  [i \in 1 .. Len(ids) |->
            report_row(ids[i],
                       _compute_store_metrics(tables.observations, ids[i],
                                              now_utc, configs[ids[i]]))]

\* The windows _compute_store_metrics builds for each store of the run.
run_windows(tables, now_utc) ==
    [sid \in store_ids(tables) |-> store_windows(now_utc)]

----------------------------------------------------------------------------
(* loader.load_csvs_if_needed.  data_dir holds the rows of the three CSV   *)
(* files when all three exist.                                             *)

\* on_conflict_do_nothing on (store_id, timestamp_utc)
insert_observations(table, rows) ==
    table \cup {r \in rows :
                  ~ \E q \in table : /\ q.store_id = r.store_id
                                     /\ q.timestamp_utc = r.timestamp_utc}

\* on_conflict_do_nothing on the whole span
RECURSIVE insert_business_hours(_, _, _)
insert_business_hours(table, rows, i) ==
    IF i > Len(rows) THEN table
    ELSE insert_business_hours(
             IF \E k \in 1 .. Len(table) : table[k] = rows[i]
             THEN table ELSE Append(table, rows[i]),
             rows, i + 1)

\* on_conflict_do_update on store_id
upsert_timezones(table, rows) ==
    {q \in table : ~ \E r \in rows : r.store_id = q.store_id} \cup rows

load_csvs_if_needed(tables, dir) ==
    IF tables.observations # {} THEN tables
    ELSE IF ~dir.present THEN tables
    ELSE [observations |-> insert_observations(tables.observations, dir.store_status),
          business_hours |-> insert_business_hours(tables.business_hours,
                                                   dir.business_hours, 1),
          store_timezones |-> upsert_timezones(tables.store_timezones,
                                               dir.store_timezone)]

----------------------------------------------------------------------------
(* The state of the service before any request, and the value of `call`    *)
(* when no engine function is under test.                                  *)

NoCall == [fn |-> "none"]
NoDataDir == [present |-> FALSE]
EmptyDb == [observations |-> {}, business_hours |-> <<>>, store_timezones |-> {}]

ServiceIdle ==
    /\ data_dir = NoDataDir
    /\ db = EmptyDb
    /\ reports = <<>>
    /\ tasks = <<>>
    /\ files = <<>>

Status == {"active", "inactive"}

----------------------------------------------------------------------------
(* SpecInterp: _interpolate_status applied to every series of at most      *)
(* MaxObs observations with distinct timestamps in 0 .. MaxT, sorted       *)
(* ascending (the query orders by timestamp_utc and the table is unique on *)
(* (store_id, timestamp_utc)), and every window s < e within 0 .. MaxT.    *)

MaxT == 5
MaxObs == 3

SetMin(S) == CHOOSE x \in S : \A y \in S : x <= y

RECURSIVE SeriesOf(_, _)
SeriesOf(S, f) ==
    IF S = {} THEN <<>>
    ELSE LET m == SetMin(S)
         IN  <<[t |-> m, status |-> f[m]]>> \o SeriesOf(S \ {m}, f)

InterpInit ==
    /\ \E S \in SUBSET (0 .. MaxT) :
         /\ Cardinality(S) <= MaxObs
         /\ \E f \in [S -> Status] :
              \E s \in 0 .. MaxT, e \in 0 .. MaxT :
                 /\ s < e
                 /\ call = [fn |-> "_interpolate_status",
                            observations |-> SeriesOf(S, f),
                            window |-> Interval(s, e),
                            returned |-> FALSE,
                            result |-> [up |-> 0, down |-> 0]]
    /\ ServiceIdle

CallInterpolate ==
    /\ call.fn = "_interpolate_status"
    /\ ~call.returned
    /\ call' = [call EXCEPT !.returned = TRUE,
                            !.result = _interpolate_status(call.observations,
                                                           call.window)]
    /\ UNCHANGED <<data_dir, db, reports, tasks, files>>

InterpNext == CallInterpolate

SpecInterp == InterpInit /\ [][InterpNext]_vars

InterpReturned == call.fn = "_interpolate_status" /\ call.returned

----------------------------------------------------------------------------
(* C1 *)

\* C1 as stated: for every non-degenerate window and every sorted series the
\* returned seconds are non-negative and add up to the window's length.
C1_SumIsDuration_AnySeries ==
    InterpReturned =>
        /\ call.result.up >= 0
        /\ call.result.down >= 0
        /\ call.result.up + call.result.down = duration_seconds(call.window)

\* C1 amended: for every non-degenerate window and every NON-EMPTY sorted
\* series the returned seconds are non-negative and add up to the window's
\* length (the empty series returns (0, 0)).
C1_SumIsDuration_NonEmpty ==
    (InterpReturned /\ call.observations # <<>>) =>
        /\ call.result.up >= 0
        /\ call.result.down >= 0
        /\ call.result.up + call.result.down = duration_seconds(call.window)

\* A call with an observation before the window, two inside it, and both
\* kinds of time attributed.
C1_Witness ==
    /\ InterpReturned
    /\ Len(call.observations) = 3
    /\ call.observations[1].t < call.window.start
    /\ Len(AllPoints(call.observations, call.window)) = 2
    /\ call.result.up > 0
    /\ call.result.down > 0

----------------------------------------------------------------------------
(* C9 *)

\* The carried status as C9 words it: the status of the last observation at
\* or before s, else the status of the first observation of the series.
C9_Carried(observations, s) ==
    LET before == {i \in 1 .. Len(observations) : observations[i].t <= s}
    IN  IF before = {} THEN observations[1].status
        ELSE observations[CHOOSE i \in before : \A j \in before : j <= i].status

\* The first observation strictly inside (s, e), else e.
C9_FirstInside(observations, s, e) ==
    LET inside == {observations[i].t : i \in {j \in 1 .. Len(observations) :
                       observations[j].t > s /\ observations[j].t < e}}
    IN  IF inside = {} THEN e ELSE SetMin(inside)

\* C9: on a non-empty sorted series the time from s to the first observation
\* strictly inside (s, e), or to e, is attributed to the status of the last
\* observation at or before s, else to the status of the first observation;
\* when no observation is inside, that is the whole result; and a series of
\* one 'up' observation gives (e - s, 0) for every window.
C9_CarriedStatusSeedsWindow ==
    (InterpReturned /\ call.observations # <<>>) =>
        LET obs == call.observations
            s == call.window.start
            e == call.window.end
            c == C9_Carried(obs, s)
            f == C9_FirstInside(obs, s, e)
        IN  /\ c = "active" => call.result.up >= f - s
            /\ c = "inactive" => call.result.down >= f - s
            /\ (f = e /\ c = "active") => call.result = [up |-> e - s, down |-> 0]
            /\ (f = e /\ c = "inactive") => call.result = [up |-> 0, down |-> e - s]
            /\ (Len(obs) = 1 /\ obs[1].status = "active")
                   => call.result = [up |-> e - s, down |-> 0]

\* The first observation is 'up' and later than the window's end, a 'down'
\* one follows, and the whole window is attributed to 'up'.
C9_Witness ==
    /\ InterpReturned
    /\ Len(call.observations) = 2
    /\ call.observations[1].t > call.window.end
    /\ call.observations[1].status = "active"
    /\ call.observations[2].status = "inactive"
    /\ call.result = [up |-> duration_seconds(call.window), down |-> 0]

----------------------------------------------------------------------------
(* C13 *)

\* C13: _interpolate_status is additive over a split of the window: for
\* every sorted series and every m strictly between s and e, the results of
\* [s, m) and [m, e) add up, componentwise, to the result of [s, e).
C13_AdditiveOverSplit ==
    InterpReturned =>
        \A m \in call.window.start + 1 .. call.window.end - 1 :
            LET left == _interpolate_status(call.observations,
                                            Interval(call.window.start, m))
                right == _interpolate_status(call.observations,
                                             Interval(m, call.window.end))
            IN  /\ left.up + right.up = call.result.up
                /\ left.down + right.down = call.result.down

\* A window whose first observation, 'up', lies strictly inside it with no
\* observation at or before it, a 'down' one after it also inside: the window
\* can be split on an observation and before the first one.
C13_Witness ==
    /\ InterpReturned
    /\ Len(call.observations) = 2
    /\ call.observations[1].t > call.window.start + 1
    /\ call.observations[2].t < call.window.end
    /\ call.observations[1].status = "active"
    /\ call.observations[2].status = "inactive"
    /\ call.result.up = call.observations[2].t - call.window.start
    /\ call.result.down = call.window.end - call.observations[2].t

----------------------------------------------------------------------------
(* SpecBiz: _business_intervals_utc applied to ranges of one hour and one  *)
(* day ending on the Tuesday of the second week, in three timezones, for   *)
(* every schedule that gives Monday and Tuesday each at most MaxSpans      *)
(* distinct spans of SpanChoices, in any table order, and the other        *)
(* weekdays none.                                                          *)

MaxSpans == 2

UTC == 0
AMERICA_CHICAGO == -6 * HOUR
ASIA_KOLKATA == 5 * HOUR + 30 * MINUTE
TzChoices == {UTC, AMERICA_CHICAGO, ASIA_KOLKATA}

MONDAY == 7 * DAY       \* the Monday of the second week, 00:00 UTC
TUESDAY == 8 * DAY

\* 09:00-17:00, 22:00-02:00 (wraps past midnight), 00:00-12:00 and
\* 00:00-00:00 (end = start: wraps past midnight).
SpanChoices ==
    { <<9 * HOUR, 17 * HOUR>>, <<22 * HOUR, 2 * HOUR>>, <<0, 12 * HOUR>>, <<0, 0>> }

\* The sequences without repetition of at most n spans: business_hours is
\* unique on (store_id, day_of_week, start_time_local, end_time_local).
RECURSIVE SpanLists(_)
SpanLists(n) ==
    IF n = 0 THEN {<<>>}
    ELSE LET shorter == SpanLists(n - 1)
             longest == {l \in shorter : Len(l) = n - 1}
         IN  shorter \cup
             { Append(p[1], p[2]) :
                 p \in {q \in longest \X SpanChoices :
                          \A i \in 1 .. Len(q[1]) : q[1][i] # q[2]} }

Schedules ==
    { [w \in Weekdays |-> IF w = 0 THEN mon ELSE IF w = 1 THEN tue ELSE <<>>] :
        mon \in SpanLists(MaxSpans), tue \in SpanLists(MaxSpans) }

RangeEnds ==
    { TUESDAY, TUESDAY + 90 * MINUTE, TUESDAY + 3 * HOUR, TUESDAY + 7 * HOUR,
      TUESDAY + 12 * HOUR }
RangeLengths == {HOUR, DAY}

BizInit ==
    /\ \E tz \in TzChoices, bh \in Schedules, e \in RangeEnds, len \in RangeLengths :
         call = [fn |-> "_business_intervals_utc",
                 start_utc |-> e - len,
                 end_utc |-> e,
                 config |-> [timezone |-> tz, business_hours_by_dow |-> bh],
                 returned |-> FALSE,
                 days |-> <<>>,
                 intervals |-> <<>>]
    /\ ServiceIdle

\* The call, with what each iteration of the loop over the days worked on:
\* the day, the spans it used and the clamped intervals it appended.
CallBusinessIntervals ==
    /\ call.fn = "_business_intervals_utc"
    /\ ~call.returned
    /\ LET dr == daterange_days(call.start_utc, call.end_utc, call.config.timezone)
       IN  call' = [call EXCEPT
              !.returned = TRUE,
              !.days = [i \in 1 .. Len(dr) |->
                          [day_local_midnight |-> dr[i],
                           spans |-> day_spans(call.config, weekday(dr[i])),
                           intervals |-> day_business_intervals(
                               dr[i], call.start_utc, call.end_utc, call.config)]],
              !.intervals = _business_intervals_utc(call.start_utc, call.end_utc,
                                                    call.config)]
    /\ UNCHANGED <<data_dir, db, reports, tasks, files>>

BizNext == CallBusinessIntervals

SpecBiz == BizInit /\ [][BizNext]_vars

BizReturned == call.fn = "_business_intervals_utc" /\ call.returned

----------------------------------------------------------------------------
(* C7 *)

\* C7: the returned list is ascending and pairwise non-overlapping: each
\* interval ends at or before the start of the next.
C7_AscendingDisjoint ==
    BizReturned =>
        \A i \in 1 .. Len(call.intervals) - 1 :
            call.intervals[i].end <= call.intervals[i + 1].start

----------------------------------------------------------------------------
(* C8 *)

C8_Covered(t) ==
    \E i \in 1 .. Len(call.intervals) :
        call.intervals[i].start <= t /\ t < call.intervals[i].end

\* Business-open at instant t as C8 words it, in the site's local time: in a
\* span of t's own weekday (the all-day span when it has none), up to
\* midnight for a span that wraps, or in the after-midnight part of a
\* wrapping span of the previous local day.
C8_Open(t, config) ==
    LET local == t + config.timezone
        day == (local \div DAY) * DAY
        tod == local - day
        own == day_spans(config, (day \div DAY) % 7)
        prev == config.business_hours_by_dow[((day \div DAY) - 1) % 7]
    IN  \/ \E i \in 1 .. Len(own) :
              IF own[i][2] > own[i][1]
              THEN own[i][1] <= tod /\ tod < own[i][2]
              ELSE own[i][1] <= tod
        \/ \E i \in 1 .. Len(prev) :
              prev[i][2] <= prev[i][1] /\ tod < prev[i][2]

\* The instants compared: one millisecond either side of every boundary a
\* span or the range can have, on the local days around the range.
C8_Probes ==
    LET tods == {0, 30 * MINUTE, HOUR, 2 * HOUR, 9 * HOUR, 12 * HOUR, 17 * HOUR,
                 22 * HOUR, 23 * HOUR}
    IN  { d * DAY + tod + k - call.config.timezone :
            d \in 6 .. 9, tod \in tods, k \in {-1, 0, 1} }
        \cup {call.start_utc, call.end_utc - 1}

\* C8: an instant of the range, the final second before local midnight set
\* aside, is covered by the returned intervals iff the site is open then.
C8_CoversOpenTime ==
    BizReturned =>
        \A t \in C8_Probes :
            ( /\ call.start_utc <= t
              /\ t < call.end_utc
              /\ (t + call.config.timezone) % DAY < DAY - SECOND )
            => (C8_Covered(t) <=> C8_Open(t, call.config))

----------------------------------------------------------------------------
(* C10 *)

RECURSIVE C10_Flatten(_, _)
C10_Flatten(days, i) ==
    IF i > Len(days) THEN <<>> ELSE days[i].intervals \o C10_Flatten(days, i + 1)

\* C10: every enumerated local day whose weekday has no configured span is
\* expanded as the single span 00:00:00-23:59:59 local, whatever the other
\* weekdays have; a day whose weekday has spans uses exactly those; and the
\* result is what the days contributed, in order.
C10_AllDayPerWeekday ==
    BizReturned =>
        /\ \A i \in 1 .. Len(call.days) :
              LET d == call.days[i].day_local_midnight
                  configured == call.config.business_hours_by_dow[(d \div DAY) % 7]
                  tz == call.config.timezone
              IN  IF configured = <<>>
                  THEN /\ call.days[i].spans = << <<0, 86399000>> >>
                       /\ call.days[i].intervals =
                             clamp(Interval(d - tz, d + 86399000 - tz),
                                   call.start_utc, call.end_utc)
                  ELSE call.days[i].spans = configured
        /\ call.intervals = C10_Flatten(call.days, 1)

\* Monday has spans, Tuesday has none, and the Tuesday of the range was
\* expanded to a non-empty all-day interval.
C10_Witness ==
    /\ BizReturned
    /\ call.config.business_hours_by_dow[0] # <<>>
    /\ call.config.business_hours_by_dow[1] = <<>>
    /\ \E i \in 1 .. Len(call.days) :
          /\ weekday(call.days[i].day_local_midnight) = 1
          /\ call.days[i].spans = <<ALL_DAY_SPAN>>
          /\ call.days[i].intervals # <<>>

----------------------------------------------------------------------------
(* SpecMetrics: _compute_store_metrics and the row generate_report makes   *)
(* of it, for one store.  The store was observed every 30 minutes, the     *)
(* last time at now_utc, at most MaxSeries times, and possibly once more a *)
(* day and a quarter of an hour before now_utc; now_utc, the latest        *)
(* timestamp of the table, falls on the Tuesday of the second week.        *)

MaxSeries == 5

STORE == "s1"

MetricNows ==
    { TUESDAY, TUESDAY + 20 * MINUTE, TUESDAY + HOUR, TUESDAY + 6 * HOUR + 20 * MINUTE,
      TUESDAY + 12 * HOUR, TUESDAY + 23 * HOUR + 59 * MINUTE + 59 * SECOND }

MetricSchedules ==
    LET sched(mon, tue) ==
            [w \in Weekdays |-> IF w = 0 THEN mon ELSE IF w = 1 THEN tue ELSE <<>>]
    IN  { sched(<<>>, <<>>),
          sched(<< <<22 * HOUR, 2 * HOUR>> >>, <<>>),
          sched(<< <<22 * HOUR, 2 * HOUR>> >>, << <<9 * HOUR, 17 * HOUR>> >>),
          sched(<<>>, << <<9 * HOUR, 17 * HOUR>>, <<0, 12 * HOUR>> >>),
          sched(<< <<0, 12 * HOUR>> >>, << <<0, 0>> >>) }

MetricsInit ==
    /\ \E now \in MetricNows, tz \in {UTC, AMERICA_CHICAGO}, bh \in MetricSchedules,
          k \in 0 .. MaxSeries :
         \E f \in [0 .. k - 1 -> Status], old \in SUBSET Status :
            /\ Cardinality(old) <= 1
            /\ db = [observations |->
                        { [store_id |-> STORE,
                           timestamp_utc |-> now - i * 30 * MINUTE,
                           status |-> f[i]] : i \in 0 .. k - 1 }
                        \cup
                        { [store_id |-> STORE,
                           timestamp_utc |-> now - DAY - 15 * MINUTE,
                           status |-> st] : st \in old },
                     business_hours |-> <<>>,
                     store_timezones |-> {}]
            /\ call = [fn |-> "_compute_store_metrics",
                       store_id |-> STORE,
                       now_utc |-> now,
                       config |-> [timezone |-> tz, business_hours_by_dow |-> bh],
                       returned |-> FALSE,
                       metrics |-> <<>>,
                       row |-> <<>>]
    /\ data_dir = NoDataDir
    /\ reports = <<>>
    /\ tasks = <<>>
    /\ files = <<>>

CallComputeStoreMetrics ==
    /\ call.fn = "_compute_store_metrics"
    /\ ~call.returned
    /\ LET metrics == _compute_store_metrics(db.observations, call.store_id,
                                             call.now_utc, call.config)
       IN  call' = [call EXCEPT !.returned = TRUE,
                                !.metrics = metrics,
                                !.row = report_row(call.store_id, metrics)]
    /\ UNCHANGED <<data_dir, db, reports, tasks, files>>

MetricsNext == CallComputeStoreMetrics

SpecMetrics == MetricsInit /\ [][MetricsNext]_vars

MetricsReturned == call.fn = "_compute_store_metrics" /\ call.returned

----------------------------------------------------------------------------
(* C6 *)

\* The scenario of C6: timezone UTC, no business hours, and the store's
\* observations of the two hours ending at now_utc are the five at 30-minute
\* steps, alternating up and down.
C6_Scenario ==
    /\ MetricsReturned
    /\ call.config.timezone = 0
    /\ \A w \in 0 .. 6 : call.config.business_hours_by_dow[w] = <<>>
    /\ LET recent == {r \in db.observations :
                        r.timestamp_utc >= call.now_utc - 2 * HOUR}
       IN  /\ {r.timestamp_utc : r \in recent}
                = {call.now_utc - i * 30 * MINUTE : i \in 0 .. 4}
           /\ \A r, q \in recent :
                 (r.timestamp_utc - q.timestamp_utc = 30 * MINUTE)
                    => r.status # q.status

C6_HalfAndHalf ==
    /\ call.row.uptime_last_hour = 3000
    /\ call.row.downtime_last_hour = 3000

\* C6 as stated: in the scenario the last hour is reported as 30.00 minutes
\* up and 30.00 minutes down for every now_utc.
C6_HalfAndHalf_AnyNow == C6_Scenario => C6_HalfAndHalf

\* C6 amended: in the scenario the last hour is reported as 30.00 minutes
\* up and 30.00 minutes down whenever the hour [now_utc - 1h, now_utc) lies
\* within one UTC day and ends no later than its 23:59:59.
C6_HalfAndHalf_WithinDay ==
    ( /\ C6_Scenario
      /\ call.now_utc % DAY >= HOUR
      /\ call.now_utc % DAY <= 23 * HOUR + 59 * MINUTE + 59 * SECOND )
    => C6_HalfAndHalf

\* The scenario at now_utc = 23:59:59, the latest time of day the amended
\* claim covers.
C6_Witness ==
    /\ C6_Scenario
    /\ call.now_utc % DAY = 23 * HOUR + 59 * MINUTE + 59 * SECOND
    /\ C6_HalfAndHalf

----------------------------------------------------------------------------
(* C11 *)

\* C11: in each of the three windows the accumulated uptime plus downtime
\* does not exceed the window's length: one hour, one day, seven days.
C11_TotalsWithinWindow ==
    MetricsReturned =>
        /\ call.metrics.uptime_last_hour_min.total
             + call.metrics.downtime_last_hour_min.total <= 3600 * SECOND
        /\ call.metrics.uptime_last_day_hr.total
             + call.metrics.downtime_last_day_hr.total <= 86400 * SECOND
        /\ call.metrics.uptime_last_week_hr.total
             + call.metrics.downtime_last_week_hr.total <= 604800 * SECOND

----------------------------------------------------------------------------
(* C12 *)

\* C12: the totals of the windows are nested: uptime of the last hour <=
\* uptime of the last day <= uptime of the last week, and likewise downtime.
C12_WindowTotalsNested ==
    MetricsReturned =>
        /\ call.metrics.uptime_last_hour_min.total
              <= call.metrics.uptime_last_day_hr.total
        /\ call.metrics.uptime_last_day_hr.total
              <= call.metrics.uptime_last_week_hr.total
        /\ call.metrics.downtime_last_hour_min.total
              <= call.metrics.downtime_last_day_hr.total
        /\ call.metrics.downtime_last_day_hr.total
              <= call.metrics.downtime_last_week_hr.total

\* A store with a schedule of overlapping spans, observed 'up' more than a
\* day ago and 'down' since, with both kinds of time in the week and the
\* three downtimes strictly growing.
C12_Witness ==
    /\ MetricsReturned
    /\ Len(call.config.business_hours_by_dow[1]) = 2
    /\ \E r \in db.observations : r.timestamp_utc < call.now_utc - DAY
    /\ call.metrics.uptime_last_week_hr.total > 0
    /\ call.metrics.downtime_last_hour_min.total > 0
    /\ call.metrics.downtime_last_hour_min.total
          < call.metrics.downtime_last_day_hr.total
    /\ call.metrics.downtime_last_day_hr.total
          < call.metrics.downtime_last_week_hr.total

----------------------------------------------------------------------------
(* Spec: the report job lifecycle of main.py.  trigger_report stores a job *)
(* and schedules _run_generation_task for it; the tasks of several jobs    *)
(* run concurrently, each in a database session of its own.  A task's      *)
(* steps are its database round trips: load_csvs_if_needed, the queries    *)
(* and the CSV file of generate_report, the commit of the Complete job,    *)
(* and the except branch.  Any step may raise: an error outside the        *)
(* database ("app": a malformed CSV cell, the file system) leaves the      *)
(* session's transaction usable, an error of the database ("db") leaves    *)
(* it failed until a rollback, which the except branch does not issue.     *)

MaxJobs == 2

STORES == {"s1", "s2"}
StoreKinds == {"absent", "obs", "tz", "bh", "all"}

\* The latest observation of s1 and of s2.
T1 == TUESDAY + 10 * HOUR
T2 == TUESDAY + 12 * HOUR

\* The rows the CSV files hold for a store of each kind.
csv_store_status(sid, kind) ==
    IF kind \in {"obs", "all"}
    THEN IF sid = "s1"
         THEN { [store_id |-> sid, timestamp_utc |-> T1 - 30 * MINUTE, status |-> "inactive"],
                [store_id |-> sid, timestamp_utc |-> T1, status |-> "active"] }
         ELSE { [store_id |-> sid, timestamp_utc |-> T2 - 30 * MINUTE, status |-> "active"],
                [store_id |-> sid, timestamp_utc |-> T2, status |-> "inactive"] }
    ELSE {}

csv_store_timezone(sid, kind) ==
    IF kind \in {"tz", "all"}
    THEN {[store_id |-> sid,
           timezone_str |-> IF sid = "s1" THEN "UTC" ELSE "Not/AZone"]}
    ELSE {}

csv_business_hours(sid, kind) ==
    IF kind \in {"bh", "all"}
    THEN IF sid = "s1"
         THEN << [store_id |-> sid, day_of_week |-> 1,
                  start_time_local |-> 9 * HOUR, end_time_local |-> 17 * HOUR] >>
         ELSE << [store_id |-> sid, day_of_week |-> 0,
                  start_time_local |-> 22 * HOUR, end_time_local |-> 2 * HOUR] >>
    ELSE <<>>

DataDirs ==
    {NoDataDir} \cup
    { [present |-> TRUE,
       store_status |-> csv_store_status("s1", k1) \cup csv_store_status("s2", k2),
       business_hours |-> csv_business_hours("s1", k1) \o csv_business_hours("s2", k2),
       store_timezone |-> csv_store_timezone("s1", k1) \cup csv_store_timezone("s2", k2)] :
        k1 \in StoreKinds, k2 \in StoreKinds }

\* datetime.utcnow() when the table holds no observation.
UTCNOW == TUESDAY + 36 * HOUR

Init ==
    /\ call = NoCall
    /\ data_dir \in DataDirs
    /\ db = EmptyDb
    /\ reports = <<>>
    /\ tasks = <<>>
    /\ files = <<>>

JobIds == 1 .. MaxJobs

\* trigger_report: the job row, committed, then the background task.
trigger_report ==
    /\ Len(reports) < MaxJobs
    /\ reports' = Append(reports, [id |-> Len(reports) + 1,
                                   status |-> "Running",
                                   completed_at |-> <<>>,
                                   file_path |-> <<>>,
                                   error_message |-> <<>>])
    /\ tasks' = Append(tasks, [pc |-> "load", tx |-> "ok", exc |-> <<>>,
                               now_utc |-> 0, windows |-> <<>>])
    /\ UNCHANGED <<call, data_dir, db, files>>

\* The exception a step raises, and the state it leaves the transaction in.
Raised(task, kind) ==
    [task EXCEPT !.pc = "except",
                 !.exc = <<IF kind = "db" THEN "OperationalError" ELSE "ValueError">>,
                 !.tx = IF kind = "db" THEN "failed" ELSE "ok"]

\* _run_generation_task, line 47.
task_load(j) ==
    /\ j \in DOMAIN tasks
    /\ tasks[j].pc = "load"
    /\ \E outcome \in {"ok", "app", "db"} :
          IF outcome = "ok"
          THEN /\ db' = load_csvs_if_needed(db, data_dir)
               /\ tasks' = [tasks EXCEPT ![j].pc = "generate"]
          ELSE /\ db' = db
               /\ tasks' = [tasks EXCEPT ![j] = Raised(tasks[j], outcome)]
    /\ UNCHANGED <<call, data_dir, reports, files>>

\* generate_report, lines 177-215: the rows and the CSV file.
task_generate(j) ==
    /\ j \in DOMAIN tasks
    /\ tasks[j].pc = "generate"
    /\ \E outcome \in {"ok", "app", "db"} :
          IF outcome = "ok"
          THEN LET now_utc == _get_reference_now(db.observations, UTCNOW)
               IN  /\ files' = (j :> report_rows(db, now_utc)) @@ files
                   /\ tasks' = [tasks EXCEPT ![j].pc = "commit",
                                             ![j].now_utc = now_utc,
                                             ![j].windows = run_windows(db, now_utc)]
          ELSE /\ files' = files
               /\ tasks' = [tasks EXCEPT ![j] = Raised(tasks[j], outcome)]
    /\ UNCHANGED <<call, data_dir, db, reports>>

\* A variant that updates every job row instead of the one with this id.
complete_every_report(rows, report_id) ==
    [k \in DOMAIN rows |->
        [rows[k] EXCEPT !.status = "Complete",
                        !.completed_at = <<"utcnow">>,
                        !.file_path = <<report_id>>,
                        !.error_message = <<>>]]

\* generate_report, lines 217-223, committed.
complete_report(rows, report_id) ==
    IF report_id \in DOMAIN rows
    THEN [rows EXCEPT ![report_id].status = "Complete",
                      ![report_id].completed_at = <<"utcnow">>,
                      ![report_id].file_path = <<report_id>>,
                      ![report_id].error_message = <<>>]
    ELSE rows

\* generate_report, lines 217-223: session.commit() succeeds, or raises and
\* nothing is stored; a commit that raised has rolled the session back
\* ("app") or left it unusable ("db").
task_commit(j) ==
    /\ j \in DOMAIN tasks
    /\ tasks[j].pc = "commit"
    /\ \E outcome \in {"ok", "app", "db"} :
          IF outcome = "ok"
          THEN /\ reports' = complete_report(reports, j)
               /\ tasks' = [tasks EXCEPT ![j].pc = "done"]
          ELSE /\ reports' = reports
               /\ tasks' = [tasks EXCEPT ![j] = Raised(tasks[j], outcome)]
    /\ UNCHANGED <<call, data_dir, db, files>>

\* A variant that stores the status alone.
fail_report_without_message(rows, report_id, exc) ==
    IF report_id \in DOMAIN rows
    THEN [rows EXCEPT ![report_id].status = "Failed"]
    ELSE rows

\* _run_generation_task, lines 51-55, committed.
fail_report(rows, report_id, exc) ==
    IF report_id \in DOMAIN rows
    THEN [rows EXCEPT ![report_id].status = "Failed",
                      ![report_id].error_message = exc]
    ELSE rows

\* _run_generation_task, lines 49-55: the except branch.  session.get and
\* session.commit raise in a failed transaction, and may raise in a usable
\* one; the exception then leaves the task and nothing is stored.
task_except(j) ==
    /\ j \in DOMAIN tasks
    /\ tasks[j].pc = "except"
    /\ \E outcome \in {"ok", "db"} :
          IF tasks[j].tx = "ok" /\ outcome = "ok"
          THEN /\ reports' = fail_report(reports, j, tasks[j].exc)
               /\ tasks' = [tasks EXCEPT ![j].pc = "done"]
          ELSE /\ reports' = reports
               /\ tasks' = [tasks EXCEPT ![j].pc = "crashed", ![j].tx = "failed"]
    /\ UNCHANGED <<call, data_dir, db, files>>

\* POST /load_data
load_data ==
    /\ db' = load_csvs_if_needed(db, data_dir)
    /\ db' # db
    /\ UNCHANGED <<call, data_dir, reports, tasks, files>>

\* GET /get_report: the response, kept in `call`.
get_report(report_id) ==
    /\ call' =
         [fn |-> "get_report",
          report_id |-> report_id,
          response |->
             IF report_id \notin DOMAIN reports
             THEN [status_code |-> 404, text |-> "report_id not found", csv |-> <<>>]
             ELSE IF reports[report_id].status # "Complete"
             THEN [status_code |-> 200, text |-> reports[report_id].status, csv |-> <<>>]
             ELSE IF reports[report_id].file_path[1] \notin DOMAIN files
             THEN [status_code |-> 500, text |-> "Report file missing", csv |-> <<>>]
             ELSE [status_code |-> 200, text |-> "",
                   csv |-> <<files[reports[report_id].file_path[1]]>>]]
    /\ UNCHANGED <<data_dir, db, reports, tasks, files>>

Next ==
    \/ trigger_report
    \/ \E j \in JobIds : task_load(j)
    \/ \E j \in JobIds : task_generate(j)
    \/ \E j \in JobIds : task_commit(j)
    \/ \E j \in JobIds : task_except(j)
    \/ load_data
    \/ \E id \in JobIds : get_report(id)

Spec == Init /\ [][Next]_vars

----------------------------------------------------------------------------
(* C2 *)

Terminal == {"Complete", "Failed"}

\* C2: a job is created with status Running; its stored status changes only
\* from Running to Complete or Failed, hence at most once, and a Complete or
\* Failed job keeps its status; and a step that changes a job's row is a
\* step of that job's own task and of no other.
C2_OneTransitionByOwnRun ==
    [][ /\ \A j \in DOMAIN reports' :
              j \notin DOMAIN reports => reports'[j].status = "Running"
        /\ \A j \in DOMAIN reports :
              /\ j \in DOMAIN reports'
              /\ reports'[j].status # reports[j].status
                    => /\ reports[j].status = "Running"
                       /\ reports'[j].status \in Terminal
              /\ reports'[j] # reports[j]
                    => /\ tasks'[j] # tasks[j]
                       /\ \A k \in DOMAIN tasks \ {j} : tasks'[k] = tasks[k]
      ]_vars

\* Two jobs ran concurrently; one is Complete and the other Failed.
C2_Witness ==
    /\ Len(reports) = 2
    /\ reports[1].status = "Failed"
    /\ reports[2].status = "Complete"
    /\ tasks[1].pc = "done"
    /\ tasks[2].pc = "done"

----------------------------------------------------------------------------
(* C3 *)

\* C3: once a job's task has run to its end the job is terminal: Complete
\* when no step raised, Failed with an error message when a step raised.
C3_EndedTaskLeavesTerminalJob ==
    \A j \in DOMAIN tasks :
        tasks[j].pc \in {"done", "crashed"} =>
            IF tasks[j].exc = <<>>
            THEN reports[j].status = "Complete"
            ELSE /\ reports[j].status = "Failed"
                 /\ reports[j].error_message # <<>>

----------------------------------------------------------------------------
(* C4 *)

\* C4: the now_utc of a run that wrote its file is the latest timestamp of the whole table
\* observations, and the three windows of every store of the run end at it;
\* with the latest observations of two stores at T1 < T2, both end at T2.
C4_GlobalReferenceNow ==
    \A j \in DOMAIN tasks :
        (j \in DOMAIN files /\ db.observations # {}) =>
            LET latest == CHOOSE t \in {r.timestamp_utc : r \in db.observations} :
                              \A r \in db.observations : r.timestamp_utc <= t
            IN  /\ tasks[j].now_utc = latest
                /\ \A sid \in DOMAIN tasks[j].windows :
                      /\ tasks[j].windows[sid].last_hour = [start |-> latest - HOUR, end |-> latest]
                      /\ tasks[j].windows[sid].last_day = [start |-> latest - DAY, end |-> latest]
                      /\ tasks[j].windows[sid].last_week = [start |-> latest - 7 * DAY, end |-> latest]

\* Both stores have observations, the latest at T1 < T2, and a run built the
\* windows of both to end at T2.
C4_Witness ==
    /\ \E r \in db.observations : r.store_id = "s1" /\ r.timestamp_utc = T1
    /\ \E r \in db.observations : r.store_id = "s2" /\ r.timestamp_utc = T2
    /\ \A r \in db.observations : r.store_id = "s1" => r.timestamp_utc <= T1
    /\ T1 < T2
    /\ \E j \in DOMAIN tasks :
          /\ tasks[j].pc = "done"
          /\ DOMAIN tasks[j].windows = {"s1", "s2"}
          /\ tasks[j].windows["s1"].last_hour.end = T2
          /\ tasks[j].windows["s2"].last_week.end = T2

----------------------------------------------------------------------------
(* C5 *)

C5_Observed == {r.store_id : r \in db.observations}
C5_Zoned == {r.store_id : r \in db.store_timezones}
C5_Scheduled == {db.business_hours[i].store_id : i \in 1 .. Len(db.business_hours)}

C5_AllZero(row) ==
    /\ row.uptime_last_hour = 0
    /\ row.uptime_last_day = 0
    /\ row.update_last_week = 0
    /\ row.downtime_last_hour = 0
    /\ row.downtime_last_day = 0
    /\ row.downtime_last_week = 0

\* C5: the file of a Complete job holds exactly one row for every store with
\* an observation, a timezone record or a business-hour record, no row for
\* any other store, and a row of six zeros for a store that has only a
\* timezone record.
C5_OneRowPerEligibleStore ==
    \A j \in DOMAIN reports :
        reports[j].status = "Complete" =>
            /\ j \in DOMAIN files
            /\ LET rows == files[j]
                   eligible == C5_Observed \cup C5_Zoned \cup C5_Scheduled
               IN  /\ \A sid \in eligible :
                         Cardinality({i \in 1 .. Len(rows) : rows[i].store_id = sid}) = 1
                   /\ \A i \in 1 .. Len(rows) : rows[i].store_id \in eligible
                   /\ \A i \in 1 .. Len(rows) :
                         rows[i].store_id \in C5_Zoned \ (C5_Observed \cup C5_Scheduled)
                            => C5_AllZero(rows[i])

\* A Complete report with a row of zeros for a store that has only a
\* timezone record, beside the row of an observed store that is not all
\* zeros.
C5_Witness ==
    \E j \in DOMAIN reports :
        /\ reports[j].status = "Complete"
        /\ j \in DOMAIN files
        /\ Len(files[j]) = 2
        /\ \E i \in 1 .. 2 :
              /\ files[j][i].store_id \in C5_Zoned \ (C5_Observed \cup C5_Scheduled)
              /\ C5_AllZero(files[j][i])
        /\ \E i \in 1 .. 2 :
              /\ files[j][i].store_id \in C5_Observed
              /\ ~C5_AllZero(files[j][i])

----------------------------------------------------------------------------
(* C14 *)

C14_RowsConsistent ==
    \A j \in DOMAIN reports :
        /\ reports[j].status = "Complete" =>
              /\ reports[j].file_path # <<>>
              /\ reports[j].completed_at # <<>>
              /\ reports[j].error_message = <<>>
        /\ reports[j].status = "Failed" => reports[j].error_message # <<>>

C14_ResponseMatchesRow ==
    (call'.fn = "get_report" /\ call' # call) =>
        LET id == call'.report_id
            response == call'.response
        IN  /\ response.csv # <<>> =>
                 /\ id \in DOMAIN reports
                 /\ reports[id].status = "Complete"
                 /\ response.status_code = 200
            /\ (id \in DOMAIN reports /\ reports[id].status \in {"Running", "Failed"}) =>
                 /\ response.status_code = 200
                 /\ response.text = reports[id].status
                 /\ response.csv = <<>>

\* C14: in every reachable state a Complete job has a file_path and a
\* completed_at and no error_message, and a Failed job has an error_message;
\* every get_report call answers with CSV content only for a Complete job
\* and with the status text for a Running or a Failed job.
C14_JobRowsAndResponses ==
    C14_RowsConsistent /\ [][C14_RowsConsistent' /\ C14_ResponseMatchesRow]_vars

\* A Complete job beside a Failed one, the last get_report call having
\* answered with the CSV of the Complete one.
C14_Witness ==
    /\ call.fn = "get_report"
    /\ call.response.csv # <<>>
    /\ call.report_id \in DOMAIN reports
    /\ reports[call.report_id].status = "Complete"
    /\ \E j \in DOMAIN reports :
          /\ reports[j].status = "Failed"
          /\ reports[j].error_message # <<>>

====
